---- MODULE Spec2Model ----
(***************************************************************************)
(* A model of berrypatch's instance lifecycle engine: the Resolver and the  *)
(* catalog lookups, template rendering, AppInstance.create / load and the  *)
(* lifecycle verbs, Core.list_instances / get_instance / remove_instance   *)
(* (src/berrypatch/core.py) and the install / reinstall / uninstall /      *)
(* start / stop / restart commands (src/berrypatch/cli.py).                *)
(*                                                                         *)
(* The instances root is a map from directory name to the files the code   *)
(* reads and writes in it.  Every operation is a sequence of steps, one    *)
(* per file-system or runtime effect, executed by the single process the   *)
(* code assumes; a Crash (SpecCrash only) may end the process after any    *)
(* step.  Runtime commands (docker, docker-compose) are an external        *)
(* boundary: their exit status is a nondeterministic input.                *)
(***************************************************************************)
EXTENDS Integers, Sequences, FiniteSets, TLC

VARIABLES
  fs,          \* the instances root: entry name -> its files
  net,         \* TRUE when the runtime has the shared network
  pc,          \* the running operation's next step, "idle" between operations
  op,          \* the running operation's arguments and locals
  cmds,        \* the runtime commands the running operation has issued
  ret,         \* how the running operation ended (read at pc = "done")
  origin,      \* per entry: the App whose create last wrote its metadata (0: none)
  interrupted, \* per entry: a crash cut a create between its first and last write
  crashes,     \* how many times the process has died
  catalog,     \* the catalog root: entry name -> what the directory listing finds
  persisted,   \* per entry: the variables the last create wrote to its metadata
  other        \* a second process, suspended: its pc, op, cmds and ret

vars ==
  <<fs, net, pc, op, cmds, ret, origin, interrupted, crashes, catalog, persisted, other>>


(***************************************************************************)
(* Values, variable maps                                                   *)
(***************************************************************************)

\* A variable value as json / click produce it: a string or an integer.
StrVal(s) == [t |-> "str", v |-> s]
IntVal(s) == [t |-> "int", v |-> s]

VarNames == {"PORT", "HOST", "APPDATA_DIR"}

Values == {StrVal("3000"), StrVal("4000")}

\* What the operator may type at a click.prompt.
TypedTexts == {"4000"}

\* The key sets of the variables maps a caller hands to create directly.
VarDomains == {{}, {"PORT"}, {"HOST"}, {"APPDATA_DIR"}}

VarMaps == UNION {[D -> Values] : D \in VarDomains}

\* dict.update: b's bindings laid over a's.
Overlay(a, b) ==
  [k \in DOMAIN a \cup DOMAIN b |-> IF k \in DOMAIN b THEN b[k] ELSE a[k]]

(***************************************************************************)
(* App definitions (what App.load returns for a catalog directory)         *)
(***************************************************************************)

Lit(s) == [lit |-> s]
Var(n) == [var |-> n]
IsVar(tok) == "var" \in DOMAIN tok

\* Three definitions; the last two are two states of the same catalog
\* entry "web" (before and after a catalog update).
Apps ==
  << [name |-> "redis",
      compose_template |-> <<Lit("redis data="), Var("APPDATA_DIR")>>,
      variable_definitions |-> <<>>,
      data_files |-> <<>>],
     [name |-> "web",
      compose_template |-> <<Lit("web port="), Var("PORT"), Lit(" data="), Var("APPDATA_DIR")>>,
      variable_definitions |-> <<[name |-> "PORT", default |-> StrVal("3000")], [name |-> "HOST"]>>,
      data_files |-> << <<"conf", "c1">> >>],
     [name |-> "web",
      compose_template |-> <<Lit("web host="), Var("HOST")>>,
      variable_definitions |-> <<[name |-> "HOST", default |-> IntVal("3000")]>>,
      data_files |-> << <<"conf", "c2">>, <<"../seed", "s">> >>] >>

AppIds == 1..Len(Apps)

AppNames == {Apps[a].name : a \in AppIds}

\* config.INSTANCES_DIR/<name>: the entries of the instances root.
Dirs == AppNames

\* The destination names the catalog's berry.json files give their data
\* files.
DataPaths == {"conf", "../seed"}

\* A destination name as its path components.
PathParts(p) ==
  CASE p = "conf" -> <<"conf">>
    [] p = "../seed" -> <<"..", "seed">>

\* os.path.join(instance_dir, "appdata"), as path components.
data_dir(dir) == <<"instances", dir, "appdata">>

\* dest_filename = os.path.join(data_dir, relative_filename)
dest_filename(dir, p) == data_dir(dir) \o PathParts(p)

RECURSIVE Resolve(_, _)
\* The file open(dest_filename, "w") creates: every ".." component steps
\* out of the directory reached so far.
Resolve(done, rest) ==
  IF Len(rest) = 0 THEN done
  ELSE IF Head(rest) = ".."
    THEN Resolve(IF Len(done) = 0 THEN done ELSE SubSeq(done, 1, Len(done) - 1),
                 Tail(rest))
    ELSE Resolve(Append(done, Head(rest)), Tail(rest))

\* os.path.join(instance_dir, "appdata") of each instance directory.
DataDirOf(dir) ==
  CASE dir = "redis" -> StrVal("/instances/redis/appdata")
    [] dir = "web" -> StrVal("/instances/web/appdata")
    [] OTHER -> StrVal("/instances/other/appdata")

(***************************************************************************)
(* The catalog root and the Resolver                                       *)
(***************************************************************************)

\* The names a listing of the catalog root may hold.
CatalogNames == {".git", "README", "redis", "web"}

\* os.listdir(apps_dir), in a fixed order.
CatalogOrder == <<".git", "README", "redis", "web">>

\* The names a caller may ask get_app / list_apps for.
QueryNames == {"", "we", "web", "redis"}

\* A name as its characters.
Chars(s) ==
  CASE s = "" -> <<>>
    [] s = "we" -> <<"w", "e">>
    [] s = "web" -> <<"w", "e", "b">>
    [] s = "redis" -> <<"r", "e", "d", "i", "s">>
    [] s = ".git" -> <<".", "g", "i", "t">>
    [] s = "README" -> <<"R", "E", "A", "D", "M", "E">>

\* filename.startswith(".")
StartsWithDot(name) == Len(Chars(name)) > 0 /\ Chars(name)[1] = "."

\* `query in app.name` on strings.
IsSubstring(q, s) ==
  \E i \in 0..(Len(s) - Len(q)) : SubSeq(s, i + 1, i + Len(q)) = q

\* A catalog entry: absent, a plain file, or a directory that may hold a
\* berry.json (manifest: the App it describes, 0 when there is none) and a
\* docker-compose.tmpl.yml (template).
NoEntry == [kind |-> "absent", manifest |-> 0, template |-> FALSE]

PlainFile == [kind |-> "file", manifest |-> 0, template |-> FALSE]

AppDir(a, tmpl) == [kind |-> "dir", manifest |-> a, template |-> tmpl]

CatalogEntries ==
  {NoEntry, PlainFile} \cup {AppDir(a, t) : a \in {0} \cup AppIds, t \in BOOLEAN}

Catalogs == [CatalogNames -> CatalogEntries]

\* The catalog root before the first update.
EmptyCatalog == [n \in CatalogNames |-> NoEntry]

\* The states of the upstream farm an update may bring in: the first
\* release, a release that changes web's definition, one that drops redis.
FarmRevisions ==
  { [EmptyCatalog EXCEPT ![".git"] = AppDir(0, FALSE), !["README"] = PlainFile,
                         !["redis"] = AppDir(1, TRUE), !["web"] = AppDir(2, TRUE)],
    [EmptyCatalog EXCEPT ![".git"] = AppDir(0, FALSE), !["README"] = PlainFile,
                         !["redis"] = AppDir(1, TRUE), !["web"] = AppDir(3, TRUE)],
    [EmptyCatalog EXCEPT ![".git"] = AppDir(0, FALSE), !["README"] = AppDir(0, FALSE),
                         !["web"] = AppDir(3, TRUE)] }

\* App.load(base_dir): FileNotFound unless the directory, its berry.json
\* and its docker-compose.tmpl.yml all exist.
App_load(entry) ==
  IF entry.kind # "dir" \/ entry.manifest = 0 \/ ~entry.template
    THEN [err |-> "FileNotFound", app |-> 0]
    ELSE [err |-> "none", app |-> entry.manifest]

\* The entries iter_apps does not skip.
IsCandidate(cat, n) ==
  /\ cat[n].kind # "absent"
  /\ ~StartsWithDot(n)
  /\ cat[n].kind = "dir"
  /\ cat[n].manifest # 0

\* An enumeration that skips hidden entries and non-directories only.
iter_apps_manifest_unchecked(cat) ==
  LET cands == SelectSeq(CatalogOrder, LAMBDA n :
                 cat[n].kind = "dir" /\ ~StartsWithDot(n))
      loaded == [i \in 1..Len(cands) |-> App_load(cat[cands[i]])]
      bad == {i \in 1..Len(cands) : loaded[i].err # "none"}
      stop == IF bad = {} THEN Len(cands) + 1
              ELSE CHOOSE i \in bad : \A j \in bad : i <= j
  IN [err |-> IF bad = {} THEN "none" ELSE loaded[stop].err,
      apps |-> [i \in 1..(stop - 1) |-> loaded[i].app]]

\* Resolver.iter_apps: the Apps yielded, in listing order, and the error
\* that ends the enumeration when a candidate fails to load.
iter_apps(cat) ==
  LET cands == SelectSeq(CatalogOrder, LAMBDA n : IsCandidate(cat, n))
      loaded == [i \in 1..Len(cands) |-> App_load(cat[cands[i]])]
      bad == {i \in 1..Len(cands) : loaded[i].err # "none"}
      stop == IF bad = {} THEN Len(cands) + 1
              ELSE CHOOSE i \in bad : \A j \in bad : i <= j
  IN [err |-> IF bad = {} THEN "none" ELSE loaded[stop].err,
      apps |-> [i \in 1..(stop - 1) |-> loaded[i].app]]

\* Core.list_apps(query): list(iter_apps()), narrowed to the names that
\* contain a non-empty query.
list_apps(cat, query) ==
  LET all == iter_apps(cat)
  IN IF all.err # "none" THEN [err |-> all.err, apps |-> <<>>]
     ELSE IF query # ""
       THEN [err |-> "none",
             apps |-> SelectSeq(all.apps, LAMBDA a :
                        IsSubstring(Chars(query), Chars(Apps[a].name)))]
       ELSE [err |-> "none", apps |-> all.apps]

\* A lookup that takes the first app list_apps(query=name) returns.
get_app_first_match(cat, name) ==
  LET l == list_apps(cat, name)
  IN IF l.err # "none" THEN [err |-> l.err, app |-> 0]
     ELSE IF Len(l.apps) = 0 THEN [err |-> "none", app |-> 0]
     ELSE [err |-> "none", app |-> l.apps[1]]

\* Core.get_app(name): the first app of list_apps(query=name) whose name is
\* name, or None (0).
get_app(cat, name) ==
  LET l == list_apps(cat, name)
      hits == SelectSeq(l.apps, LAMBDA a : Apps[a].name = name)
  IN IF l.err # "none" THEN [err |-> l.err, app |-> 0]
     ELSE IF Len(hits) = 0 THEN [err |-> "none", app |-> 0]
     ELSE [err |-> "none", app |-> hits[1]]

(***************************************************************************)
(* Template renderer                                                       *)
(***************************************************************************)

COMPOSE_FOOTER == <<"networks: default: external: name: berrypatch">>

RenderError == [ok |-> FALSE, text |-> <<>>]

\* A lenient renderer (jinja2's default Undefined): a missing variable
\* renders as the empty string.
render_template_lenient(template, context) ==
  [ok |-> TRUE,
   text |-> [i \in 1..Len(template) |->
               IF IsVar(template[i])
                 THEN IF template[i].var \in DOMAIN context
                        THEN context[template[i].var].v ELSE ""
                 ELSE template[i].lit]]

\* jinja2 with StrictUndefined: a reference to a name absent from the
\* context raises; otherwise every placeholder is replaced by str(value).
render_template(template, context) ==
  IF \E i \in 1..Len(template) :
       IsVar(template[i]) /\ template[i].var \notin DOMAIN context
    THEN RenderError
    ELSE [ok |-> TRUE,
          text |-> [i \in 1..Len(template) |->
                      IF IsVar(template[i])
                        THEN context[template[i].var].v
                        ELSE template[i].lit]]

\* context = {}; context.update(variables); context.update({"APPDATA_DIR": data_dir})
Context(variables, dir) ==
  Overlay(Overlay(<<>>, variables), [k \in {"APPDATA_DIR"} |-> DataDirOf(dir)])

(***************************************************************************)
(* Metadata and its JSON encoding                                          *)
(***************************************************************************)

\* Order in which the keys of a variables dict are serialised.
KeyOrder == <<"APPDATA_DIR", "HOST", "PORT">>

\* An encoder that writes every value as a JSON string.
JsonValueQuoted(val) == [quoted |-> TRUE, s |-> val.v]

\* json.dumps of a value: a string is written quoted, an integer bare.
JsonValue(val) == [quoted |-> val.t = "str", s |-> val.v]

\* json.loads of a value token.
JsonParse(tok) == IF tok.quoted THEN StrVal(tok.s) ELSE IntVal(tok.s)

\* Metadata that records only the variables the App declares.
metadata_declared(app, variables) ==
  [name |-> app.name,
   variables |-> [k \in DOMAIN variables \cap
                        {app.variable_definitions[i].name :
                           i \in 1..Len(app.variable_definitions)} |-> variables[k]],
   data_files |-> app.data_files]

\* metadata = {"name": app.name, "variables": variables, "data_files": app.data_files}
metadata(app, variables) ==
  [name |-> app.name, variables |-> variables, data_files |-> app.data_files]

\* json.dumps(metadata, indent=2): the document text, as its sequence of
\* members.
json_dumps(md) ==
  LET keys == SelectSeq(KeyOrder, LAMBDA k : k \in DOMAIN md.variables)
  IN [name |-> JsonValue(StrVal(md.name)),
      variables |-> [i \in 1..Len(keys) |-> <<keys[i], JsonValue(md.variables[keys[i]])>>],
      data_files |-> [i \in 1..Len(md.data_files) |->
                        <<md.data_files[i][1], JsonValue(StrVal(md.data_files[i][2]))>>]]

\* json.loads of a document text (a later duplicate member wins).
json_loads(doc) ==
  LET keys == {doc.variables[i][1] : i \in 1..Len(doc.variables)}
      last(k) == CHOOSE i \in 1..Len(doc.variables) :
                   /\ doc.variables[i][1] = k
                   /\ \A j \in 1..Len(doc.variables) : doc.variables[j][1] = k => j <= i
  IN [name |-> JsonParse(doc.name).v,
      variables |-> [k \in keys |-> JsonParse(doc.variables[last(k)][2])]]

(***************************************************************************)
(* The instances root                                                      *)
(***************************************************************************)

\* A file is absent or holds the chunks written to it since it was last
\* truncated.
Absent == [kind |-> "absent", body |-> <<>>]

\* open(path, "a"): keeps what the file holds.
OpenA(file) == [kind |-> "file", body |-> file.body]

\* open(path, "w"): creates the file or truncates it.
OpenW(file) == [kind |-> "file", body |-> <<>>]

\* The position of a handle just opened on the file: its end (the start,
\* after the truncation of mode "w").
OpenPos(file) == Len(file.body)

\* fp.write(data) followed by the close that flushes it: the data lands at
\* the handle's position, over what the file holds there by then.
FileWrite(file, pos, chunks) ==
  LET at == IF pos <= Len(file.body) THEN pos ELSE Len(file.body)
  IN [kind |-> "file",
      body |-> SubSeq(file.body, 1, at) \o chunks
                 \o SubSeq(file.body, at + Len(chunks) + 1, Len(file.body))]

\* An entry of the instances root that does not exist.
AbsentDir ==
  [kind |-> "absent", appdata |-> FALSE, compose |-> Absent, meta |-> Absent,
   data |-> [p \in DataPaths |-> Absent]]

\* Names starting with "." (none of the app names does).
IsHidden(name) == name \in {".git", ".cache"}

\* os.listdir of the instances root, in a fixed order.
DirOrder == <<"redis", "web">>

NoInst == [err |-> "none", app_name |-> "", instance_dir |-> "", variables |-> <<>>]

\* A load that first resolves the instance's App in the catalog, as
\* Resolver.get_instance does.
load_resolved(fsys, dir) ==
  LET f == fsys[dir].meta
  IN IF dir \notin CatalogNames \/ catalog[dir].kind # "dir"
       THEN [NoInst EXCEPT !.err = "AppNotFound"]
     ELSE IF f.kind = "absent" THEN [NoInst EXCEPT !.err = "FileNotFoundError"]
     ELSE IF Len(f.body) # 1 THEN [NoInst EXCEPT !.err = "JSONDecodeError"]
     ELSE LET m == json_loads(f.body[1])
          IN [err |-> "none", app_name |-> m.name, instance_dir |-> dir,
              variables |-> m.variables]

\* AppInstance.load: reads berry-meta.json only.
load(fsys, dir) ==
  LET f == fsys[dir].meta
  IN IF f.kind = "absent" THEN [NoInst EXCEPT !.err = "FileNotFoundError"]
     ELSE IF Len(f.body) # 1 THEN [NoInst EXCEPT !.err = "JSONDecodeError"]
     ELSE LET m == json_loads(f.body[1])
          IN [err |-> "none", app_name |-> m.name, instance_dir |-> dir,
              variables |-> m.variables]

\* Core.list_instances: the non-hidden entries holding a metadata file, each
\* loaded; an entry that fails to load makes the whole call raise.
list_instances(fsys) ==
  LET items == SelectSeq(DirOrder, LAMBDA d :
                 /\ fsys[d].kind # "absent"
                 /\ ~IsHidden(d)
                 /\ fsys[d].meta.kind # "absent")
      loaded == [i \in 1..Len(items) |-> load(fsys, items[i])]
  IN IF \E i \in 1..Len(loaded) : loaded[i].err # "none"
       THEN [err |-> "JSONDecodeError", instances |-> <<>>]
       ELSE [err |-> "none", instances |-> loaded]

\* Core.get_instance: the first listed instance of that app_name, or None.
get_instance(fsys, app_name) ==
  LET l == list_instances(fsys)
      hits == SelectSeq(l.instances, LAMBDA inst : inst.app_name = app_name)
  IN IF l.err # "none" THEN [err |-> l.err, found |-> FALSE, inst |-> NoInst]
     ELSE IF Len(hits) = 0 THEN [err |-> "none", found |-> FALSE, inst |-> NoInst]
     ELSE [err |-> "none", found |-> TRUE, inst |-> hits[1]]

(***************************************************************************)
(* Command line: variable prompting                                        *)
(***************************************************************************)

\* Largest number of passes through install's "Look good to you?" loop.
MaxRounds == 2

DeclaredNames(defs) == {defs[i].name : i \in 1..Len(defs)}

\* What the operator types in one pass: a text for some of the declared
\* variables, nothing (accept the default) for the others.
TypedMaps(defs) == UNION {[D -> TypedTexts] : D \in SUBSET DeclaredNames(defs)}

TypedSeqs(defs) ==
  IF Len(defs) = 0 THEN {<<>>}
  ELSE UNION {[1..n -> TypedMaps(defs)] : n \in 1..MaxRounds}

\* configure_options: one prompt per declared variable; click.prompt returns
\* the default when nothing is typed and otherwise the typed text converted
\* to the default's type.  The result holds the declared names only.
configure_options(defs, defaults, typed) ==
  LET last(n) == CHOOSE i \in 1..Len(defs) :
                   defs[i].name = n /\ \A j \in 1..Len(defs) : defs[j].name = n => j <= i
      default_value(var) ==
        IF var.name \in DOMAIN defaults THEN defaults[var.name]
        ELSE IF "default" \in DOMAIN var THEN var.default ELSE StrVal("")
  IN [n \in DeclaredNames(defs) |->
        IF n \in DOMAIN typed
          THEN [t |-> default_value(defs[last(n)]).t, v |-> typed[n]]
          ELSE default_value(defs[last(n)])]

RECURSIVE configure_rounds(_, _, _)
\* install's loop: every pass prompts again with the previous pass's result
\* as defaults.
configure_rounds(defs, variables, typedSeq) ==
  IF Len(typedSeq) = 0 THEN variables
  ELSE configure_rounds(defs, configure_options(defs, variables, Head(typedSeq)),
                        Tail(typedSeq))

\* The variables install hands to create_instance.
install_variables(app, default_variables, typedSeq) ==
  IF Len(app.variable_definitions) = 0 THEN default_variables
  ELSE configure_rounds(app.variable_definitions, default_variables, typedSeq)

RECURSIVE Overrides(_)
\* The texts the operator typed, the latest pass winning.
Overrides(typedSeq) ==
  IF Len(typedSeq) = 0 THEN <<>>
  ELSE Overlay(Head(typedSeq), Overrides(Tail(typedSeq)))

(***************************************************************************)
(* State                                                                   *)
(***************************************************************************)


NoRet == [status |-> "none", err |-> ""]

NoOp ==
  [kind |-> "none", app |-> 0, dir |-> "", vars |-> <<>>, i |-> 0,
   inst |-> NoInst, returned |-> FALSE, started |-> FALSE,
   pre |-> AbsentDir, preOrigin |-> 0, preInterrupted |-> FALSE,
   reinstall |-> FALSE, autostart |-> FALSE, prior |-> <<>>, typed |-> <<>>,
   after |-> "", verb |-> "", root |-> <<>>, query |-> "", result |-> <<>>,
   pos |-> 0]

\* No second process: nothing is suspended.
NoProcess ==
  [pc |-> "idle", op |-> NoOp, cmds |-> <<>>, ret |-> NoRet, raced |-> FALSE]

Init ==
  /\ fs = [d \in Dirs |-> AbsentDir]
  /\ net \in BOOLEAN
  /\ pc = "idle"
  /\ op = NoOp
  /\ cmds = <<>>
  /\ ret = NoRet
  /\ origin = [d \in Dirs |-> 0]
  /\ interrupted = [d \in Dirs |-> FALSE]
  /\ crashes = 0
  /\ catalog = EmptyCatalog
  /\ persisted = [d \in Dirs |-> <<>>]
  /\ other = NoProcess

\* A runtime command as issued: its exit status, and what it found.
Cmd(name, rc) ==
  [cmd |-> name, rc |-> rc, compose |-> fs[op.dir].compose.kind = "file", net |-> net]

\* The operation ends by raising e.
Raise(e) ==
  /\ pc' = "done"
  /\ ret' = [status |-> "error", err |-> e]

\* The operation returns normally.
Finish ==
  /\ pc' = "done"
  /\ ret' = [status |-> "ok", err |-> ""]

(***************************************************************************)
(* AppInstance.create, step by step                                        *)
(***************************************************************************)

CreateKinds == {"create", "install", "reinstall"}

InCreate(step) == pc = step /\ op.kind \in CreateKinds

\* App.create_instance(variables), called directly with any variables map.
ApiCreate ==
  /\ pc = "idle"
  /\ \E a \in AppIds, variables \in VarMaps :
       op' = [NoOp EXCEPT !.kind = "create", !.app = a, !.dir = Apps[a].name,
                          !.vars = variables, !.pre = fs[Apps[a].name],
                          !.preOrigin = origin[Apps[a].name],
                          !.preInterrupted = interrupted[Apps[a].name]]
  /\ pc' = "create_instance_dir"
  /\ UNCHANGED <<fs, net, cmds, ret, origin, interrupted, crashes, catalog, persisted, other>>

\* def _get_instance_id(instance_id): the parameters the method declares
\* (there is no self among them).
get_instance_id_params == <<"instance_id">>

\* Calling a method on an object passes the object first: the call fits
\* only when the method declares one parameter more than the arguments
\* written at the call.
BoundCall(params, args) ==
  IF Len(params) = Len(args) + 1 THEN "ok" ELSE "TypeError"

\* Core.install_app(app, variables): its first statement is
\* self._get_instance_id(instance_id), which raises before _get_instance_dir
\* and AppInstance.create are reached.
ApiInstallApp ==
  /\ pc = "idle"
  /\ \E a \in AppIds, variables \in VarMaps :
       op' = [NoOp EXCEPT !.kind = "install_app", !.app = a, !.dir = Apps[a].name,
                          !.vars = variables, !.pre = fs[Apps[a].name],
                          !.preOrigin = origin[Apps[a].name]]
  /\ BoundCall(get_instance_id_params, <<"default">>) # "ok"
  /\ Raise(BoundCall(get_instance_id_params, <<"default">>))
  /\ UNCHANGED <<fs, net, cmds, origin, interrupted, crashes, catalog, persisted, other>>

\* if not exists(instance_dir): makedirs; if not isdir(instance_dir): raise
CreateInstanceDir ==
  /\ InCreate("create_instance_dir")
  /\ IF fs[op.dir].kind = "file"
       THEN Raise("FileNotFound") /\ UNCHANGED fs
       ELSE /\ fs' = [fs EXCEPT ![op.dir].kind = "dir"]
            /\ pc' = "create_data_dir"
            /\ UNCHANGED ret
  /\ UNCHANGED <<net, op, cmds, origin, interrupted, crashes, catalog, persisted, other>>

\* if not exists(data_dir): makedirs
CreateDataDir ==
  /\ InCreate("create_data_dir")
  /\ fs' = [fs EXCEPT ![op.dir].appdata = TRUE]
  /\ pc' = "create_render"
  /\ UNCHANGED <<net, op, cmds, ret, origin, interrupted, crashes, catalog, persisted, other>>

\* compose_data = render_template(...) + COMPOSE_FOOTER
compose_data(app, variables, dir) ==
  LET r == render_template(app.compose_template, Context(variables, dir))
  IN [ok |-> r.ok, text |-> r.text \o COMPOSE_FOOTER]

\* A create that opens docker-compose.yml before it renders.
CreateRenderOpensFirst ==
  /\ InCreate("create_render")
  /\ fs' = [fs EXCEPT ![op.dir].compose = OpenW(@)]
  /\ op' = [op EXCEPT !.pos = OpenPos(OpenW(fs[op.dir].compose))]
  /\ IF compose_data(Apps[op.app], op.vars, op.dir).ok
       THEN pc' = "create_compose_write" /\ UNCHANGED ret
       ELSE Raise("UndefinedError")
  /\ UNCHANGED <<net, cmds, origin, interrupted, crashes, catalog, persisted, other>>

\* Render, then open docker-compose.yml for writing.
CreateRender ==
  /\ InCreate("create_render")
  /\ IF compose_data(Apps[op.app], op.vars, op.dir).ok
       THEN /\ fs' = [fs EXCEPT ![op.dir].compose = OpenW(@)]
            /\ op' = [op EXCEPT !.pos = OpenPos(OpenW(fs[op.dir].compose))]
            /\ pc' = "create_compose_write"
            /\ UNCHANGED ret
       ELSE Raise("UndefinedError") /\ UNCHANGED <<fs, op>>
  /\ UNCHANGED <<net, cmds, origin, interrupted, crashes, catalog, persisted, other>>

\* A create that opens docker-compose.yml and closes it with nothing
\* written.
CreateComposeWriteSkipped ==
  /\ InCreate("create_compose_write")
  /\ fs' = [fs EXCEPT ![op.dir].compose = FileWrite(@, op.pos, <<>>)]
  /\ op' = [op EXCEPT !.i = 1]
  /\ pc' = IF Len(Apps[op.app].data_files) = 0
             THEN "create_meta_open" ELSE "create_data_open"
  /\ UNCHANGED <<net, cmds, ret, origin, interrupted, crashes, catalog, persisted, other>>

\* fp.write(compose_data)
CreateComposeWrite ==
  /\ InCreate("create_compose_write")
  /\ fs' = [fs EXCEPT ![op.dir].compose =
              FileWrite(@, op.pos, compose_data(Apps[op.app], op.vars, op.dir).text)]
  /\ op' = [op EXCEPT !.i = 1]
  /\ pc' = IF Len(Apps[op.app].data_files) = 0
             THEN "create_meta_open" ELSE "create_data_open"
  /\ UNCHANGED <<net, cmds, ret, origin, interrupted, crashes, catalog, persisted, other>>

\* for relative_filename, contents in app.data_files.items(): open(dest, "w")
CreateDataOpen ==
  /\ InCreate("create_data_open")
  /\ fs' = [fs EXCEPT ![op.dir].data[Apps[op.app].data_files[op.i][1]] = OpenW(@)]
  /\ op' = [op EXCEPT !.pos =
              OpenPos(OpenW(fs[op.dir].data[Apps[op.app].data_files[op.i][1]]))]
  /\ pc' = "create_data_write"
  /\ UNCHANGED <<net, cmds, ret, origin, interrupted, crashes, catalog, persisted, other>>

\* fp.write(contents), then the next data file
CreateDataWrite ==
  /\ InCreate("create_data_write")
  /\ fs' = [fs EXCEPT ![op.dir].data[Apps[op.app].data_files[op.i][1]] =
              FileWrite(@, op.pos, <<Apps[op.app].data_files[op.i][2]>>)]
  /\ op' = [op EXCEPT !.i = @ + 1]
  /\ pc' = IF op.i = Len(Apps[op.app].data_files)
             THEN "create_meta_open" ELSE "create_data_open"
  /\ UNCHANGED <<net, cmds, ret, origin, interrupted, crashes, catalog, persisted, other>>

\* open(berry_meta_file, "w")
CreateMetaOpen ==
  /\ InCreate("create_meta_open")
  /\ fs' = [fs EXCEPT ![op.dir].meta = OpenW(@)]
  /\ op' = [op EXCEPT !.pos = OpenPos(OpenW(fs[op.dir].meta))]
  /\ pc' = "create_meta_write"
  /\ UNCHANGED <<net, cmds, ret, origin, interrupted, crashes, catalog, persisted, other>>

\* A create that leaves the metadata file as it was.
CreateMetaWriteSkipped ==
  /\ InCreate("create_meta_write")
  /\ fs' = [fs EXCEPT ![op.dir].meta = IF op.pre.meta.kind = "file" THEN op.pre.meta
                                        ELSE FileWrite(@, op.pos,
                                               <<json_dumps(metadata(Apps[op.app], op.vars))>>)]
  /\ origin' = [origin EXCEPT ![op.dir] = op.app]
  /\ interrupted' = [interrupted EXCEPT ![op.dir] = FALSE]
  /\ persisted' = [persisted EXCEPT ![op.dir] = op.vars]
  /\ pc' = "create_load"
  /\ UNCHANGED <<net, op, cmds, ret, crashes, catalog, other>>

\* fp.write(json.dumps(metadata, indent=2))
CreateMetaWrite ==
  /\ InCreate("create_meta_write")
  /\ fs' = [fs EXCEPT ![op.dir].meta =
              FileWrite(@, op.pos, <<json_dumps(metadata(Apps[op.app], op.vars))>>)]
  /\ origin' = [origin EXCEPT ![op.dir] = op.app]
  /\ interrupted' = [interrupted EXCEPT ![op.dir] = FALSE]
  /\ persisted' = [persisted EXCEPT ![op.dir] = op.vars]
  /\ pc' = "create_load"
  /\ UNCHANGED <<net, op, cmds, ret, crashes, catalog, other>>

\* instance = cls.load(instance_dir); then ensure_network
CreateLoad ==
  /\ InCreate("create_load")
  /\ LET inst == load(fs, op.dir)
     IN IF inst.err # "none"
          THEN Raise(inst.err) /\ UNCHANGED op
          ELSE /\ op' = [op EXCEPT !.inst = inst, !.after = "create_pull"]
               /\ pc' = "net_inspect"
               /\ UNCHANGED ret
  /\ UNCHANGED <<fs, net, cmds, origin, interrupted, crashes, catalog, persisted, other>>

\* ensure_network: docker network inspect; exit status 0 when the network
\* exists.
NetInspect ==
  /\ pc = "net_inspect"
  /\ cmds' = Append(cmds, Cmd("network inspect", IF net THEN 0 ELSE 1))
  /\ pc' = IF net THEN op.after ELSE "net_create"
  /\ UNCHANGED <<fs, net, op, ret, origin, interrupted, crashes, catalog, persisted, other>>

\* ensure_network: docker network create; its exit status is not looked at.
NetCreate ==
  /\ pc = "net_create"
  /\ \E rc \in {0, 1} :
       /\ cmds' = Append(cmds, Cmd("network create", rc))
       /\ net' = (rc = 0)
  /\ pc' = op.after
  /\ UNCHANGED <<fs, op, ret, origin, interrupted, crashes, catalog, persisted, other>>

\* instance.pull(): docker-compose pull; its exit status is not looked at.
CreatePull ==
  /\ InCreate("create_pull")
  /\ \E rc \in {0, 1} : cmds' = Append(cmds, Cmd("pull", rc))
  /\ pc' = "create_return"
  /\ UNCHANGED <<fs, net, op, ret, origin, interrupted, crashes, catalog, persisted, other>>

\* return instance: to the caller of create_instance, or on into install.
CreateReturn ==
  /\ InCreate("create_return")
  /\ op' = [op EXCEPT !.returned = TRUE, !.after = "start_up"]
  /\ IF op.kind = "create" \/ ~op.autostart
       THEN Finish
       ELSE /\ pc' = IF op.reinstall THEN "net_inspect" ELSE "cli_stop"
            /\ UNCHANGED ret
  /\ UNCHANGED <<fs, net, cmds, origin, interrupted, crashes, catalog, persisted, other>>

\* The operation is over; control is back with the caller.
Return ==
  /\ pc = "done"
  /\ pc' = "idle"
  /\ op' = NoOp
  /\ cmds' = <<>>
  /\ ret' = NoRet
  /\ UNCHANGED <<fs, net, origin, interrupted, crashes, catalog, persisted, other>>

(***************************************************************************)
(* Command line: install, reinstall, uninstall                             *)
(***************************************************************************)

\* Core.update: git clone / git pull brings the catalog root to a state of
\* the upstream farm.
CatalogUpdate ==
  /\ pc = "idle"
  /\ \E c \in FarmRevisions : catalog' = c
  /\ UNCHANGED <<fs, net, pc, op, cmds, ret, origin, interrupted, crashes, persisted, other>>

\* An install that lets an instance without variables count as absent.
already_installed_nonempty(gi, is_reinstall) ==
  gi.found /\ gi.inst.variables # <<>> /\ ~is_reinstall

\* if inst and not is_reinstall: an AppInstance object is always truthy.
already_installed(gi, is_reinstall) == gi.found /\ ~is_reinstall

\* The command ends before create: op records what it was about.
CliEnd(kind, name, status, err) ==
  /\ op' = [NoOp EXCEPT !.kind = kind, !.dir = name, !.pre = fs[name]]
  /\ pc' = "done"
  /\ ret' = [status |-> status, err |-> err]

\* The body of install from the prompts on: configure, confirm, then
\* app.create_instance(variables).
InstallBody(kind, a, is_reinstall, default_variables) ==
  \E typedSeq \in TypedSeqs(Apps[a].variable_definitions),
     confirmed \in BOOLEAN, autostart \in BOOLEAN :
    IF ~confirmed
      THEN CliEnd(kind, Apps[a].name, "abort", "")
      ELSE /\ op' = [NoOp EXCEPT
                       !.kind = kind, !.app = a, !.dir = Apps[a].name,
                       !.vars = install_variables(Apps[a], default_variables, typedSeq),
                       !.pre = fs[Apps[a].name],
                       !.preOrigin = origin[Apps[a].name],
                       !.preInterrupted = interrupted[Apps[a].name],
                       !.reinstall = is_reinstall, !.autostart = autostart,
                       !.prior = default_variables, !.typed = Overrides(typedSeq)]
           /\ pc' = "create_instance_dir"
           /\ UNCHANGED ret

\* bp install NAME
\* cli.py:93 passes raise_if_missing=False, a keyword Core.get_instance of
\* core.py:314 does not declare, and cli.py:19 calls a Core.bootstrap that
\* core.py lacks.  The commands are modelled against the lookup core.py
\* defines (None when no instance carries the name), which is what the
\* keyword asks for; taken literally every command would end in a TypeError
\* before touching any state.
CliInstall ==
  /\ pc = "idle"
  /\ \E name \in AppNames :
       LET ga == get_app(catalog, name)
           gi == get_instance(fs, name)
       IN IF ga.err # "none" THEN CliEnd("install", name, "error", ga.err)
          ELSE IF ga.app = 0 THEN CliEnd("install", name, "abort", "app not found")
          ELSE IF gi.err # "none" THEN CliEnd("install", name, "error", gi.err)
          ELSE IF already_installed(gi, FALSE)
            THEN CliEnd("install", name, "abort", "already installed")
          ELSE InstallBody("install", ga.app, FALSE, <<>>)
  /\ UNCHANGED <<fs, net, cmds, origin, interrupted, crashes, catalog, persisted, other>>

\* bp reinstall NAME: install with the instance's persisted variables as
\* default_variables.
CliReinstall ==
  /\ pc = "idle"
  /\ \E name \in AppNames :
       LET ga == get_app(catalog, name)
           gi == get_instance(fs, name)
       IN IF ga.err # "none" THEN CliEnd("reinstall", name, "error", ga.err)
          ELSE IF ga.app = 0 THEN CliEnd("reinstall", name, "abort", "app not found")
          ELSE IF gi.err # "none" THEN CliEnd("reinstall", name, "error", gi.err)
          ELSE IF ~gi.found THEN CliEnd("reinstall", name, "abort", "not installed")
          ELSE InstallBody("reinstall", ga.app, TRUE, gi.inst.variables)
  /\ UNCHANGED <<fs, net, cmds, origin, interrupted, crashes, catalog, persisted, other>>

\* install, autostart of a fresh install: instance.stop()
CliStop ==
  /\ pc = "cli_stop"
  /\ \E rc \in {0, 1} : cmds' = Append(cmds, Cmd("down", rc))
  /\ pc' = "net_inspect"
  /\ UNCHANGED <<fs, net, op, ret, origin, interrupted, crashes, catalog, persisted, other>>

\* A start that also wants the shared network to be there.
start_result_with_network(rc) == rc = 0 /\ net

\* return result.returncode == 0
start_result(rc) == rc = 0

\* AppInstance.start after ensure_network: docker-compose up -d; the result
\* is returncode == 0.
StartUp ==
  /\ pc = "start_up"
  /\ \E rc \in {0, 1} :
       /\ cmds' = Append(cmds, Cmd("up -d", rc))
       /\ op' = [op EXCEPT !.started = start_result(rc)]
  /\ Finish
  /\ UNCHANGED <<fs, net, origin, interrupted, crashes, catalog, persisted, other>>

(***************************************************************************)
(* Lifecycle verbs                                                         *)
(***************************************************************************)

Verbs == {"start", "stop", "restart", "kill", "status", "destroy"}

\* The verbs the command line offers by name.
CliVerbs == {"start", "stop", "restart"}

\* The docker-compose command each verb runs.
VerbCommand(verb) ==
  CASE verb = "start" -> "up -d"
    [] verb = "stop" -> "down"
    [] verb = "destroy" -> "rm -v"
    [] verb = "kill" -> "kill"
    [] verb = "restart" -> "restart"
    [] verb = "status" -> "ps -q"

\* errors.py: the exceptions wrap_core turns into a ClickException.
BerryErrors == {"FileNotFound", "AppNotFound", "InstanceNotFound", "CommandFailed"}

\* The verb starts on the instance inst.
VerbBegin(kind, verb, inst) ==
  /\ op' = [NoOp EXCEPT !.kind = kind, !.verb = verb, !.dir = inst.instance_dir,
                        !.inst = inst, !.pre = fs[inst.instance_dir], !.root = fs,
                        !.after = "start_up"]
  /\ pc' = IF verb = "start" THEN "net_inspect" ELSE "verb_run"
  /\ UNCHANGED ret

\* instance.<verb>() on an instance Core.get_instance has returned.
ApiVerb ==
  /\ pc = "idle"
  /\ \E name \in AppNames, verb \in Verbs :
       LET gi == get_instance(fs, name)
       IN /\ gi.err = "none"
          /\ gi.found
          /\ VerbBegin("verb", verb, gi.inst)
  /\ UNCHANGED <<fs, net, cmds, origin, interrupted, crashes, catalog, persisted, other>>

\* bp start|stop|restart NAME: inst = CORE.get_instance(name); inst.<verb>().
\* When get_instance returns None the attribute lookup on None raises.
CliVerb ==
  /\ pc = "idle"
  /\ \E name \in AppNames, verb \in CliVerbs :
       LET gi == get_instance(fs, name)
       IN IF gi.err # "none" \/ ~gi.found
            THEN /\ op' = [NoOp EXCEPT !.kind = "cli_verb", !.verb = verb, !.dir = name,
                                       !.pre = fs[name], !.root = fs]
                 /\ Raise(IF gi.err # "none" THEN gi.err ELSE "AttributeError")
            ELSE VerbBegin("cli_verb", verb, gi.inst)
  /\ UNCHANGED <<fs, net, cmds, origin, interrupted, crashes, catalog, persisted, other>>

\* A destroy that deletes the instance directory as well.
VerbRunDestroyDeletes ==
  /\ pc = "verb_run"
  /\ \E rc \in {0, 1}, images \in {0, 1} :
       /\ cmds' = Append(cmds, Cmd(VerbCommand(op.verb), rc))
       /\ IF op.verb = "status" /\ images > 0
            THEN pc' = "status_inspect" /\ UNCHANGED ret
            ELSE Finish
  /\ fs' = IF op.verb = "destroy" THEN [fs EXCEPT ![op.dir] = AbsentDir] ELSE fs
  /\ UNCHANGED <<net, op, origin, interrupted, crashes, catalog, persisted, other>>

\* stop / destroy / kill / restart: one docker-compose command whose exit
\* status is not looked at.  status: docker-compose ps -q, then one docker
\* inspect per container id it printed.
VerbRun ==
  /\ pc = "verb_run"
  /\ \E rc \in {0, 1}, images \in {0, 1} :
       /\ cmds' = Append(cmds, Cmd(VerbCommand(op.verb), rc))
       /\ IF op.verb = "status" /\ images > 0
            THEN pc' = "status_inspect" /\ UNCHANGED ret
            ELSE Finish
  /\ UNCHANGED <<fs, net, op, origin, interrupted, crashes, catalog, persisted, other>>

\* status: docker inspect of a container id; json.loads(stdout)[0] raises
\* when the container is gone and docker prints an empty list.
StatusInspect ==
  /\ pc = "status_inspect"
  /\ \E rc \in {0, 1} :
       /\ cmds' = Append(cmds, Cmd("inspect", rc))
       /\ IF rc = 0 THEN Finish ELSE Raise("IndexError")
  /\ UNCHANGED <<fs, net, op, origin, interrupted, crashes, catalog, persisted, other>>

(***************************************************************************)
(* Catalog queries                                                         *)
(***************************************************************************)

\* list(Resolver.iter_apps())
ApiIterApps ==
  /\ pc = "idle"
  /\ LET r == iter_apps(catalog)
     IN /\ op' = [NoOp EXCEPT !.kind = "iter_apps", !.result = r]
        /\ IF r.err = "none" THEN Finish ELSE Raise(r.err)
  /\ UNCHANGED <<fs, net, cmds, origin, interrupted, crashes, catalog, persisted, other>>

\* Core.get_app(name)
ApiGetApp ==
  /\ pc = "idle"
  /\ \E name \in QueryNames :
       LET r == get_app(catalog, name)
       IN /\ op' = [NoOp EXCEPT !.kind = "get_app", !.query = name, !.result = r]
          /\ IF r.err = "none" THEN Finish ELSE Raise(r.err)
  /\ UNCHANGED <<fs, net, cmds, origin, interrupted, crashes, catalog, persisted, other>>

(***************************************************************************)
(* Core.remove_instance                                                    *)
(***************************************************************************)

\* A removal that deletes the directory before the teardown.
remove_instance_steps_rmtree_first == <<"rmtree", "stop", "destroy">>

\* instance.stop(); instance.destroy(); shutil.rmtree(instance.instance_dir)
remove_instance_steps == <<"stop", "destroy", "rmtree">>

\* bp uninstall NAME: get_instance, then remove_instance(inst)
CliUninstall ==
  /\ pc = "idle"
  /\ \E name \in AppNames :
       LET gi == get_instance(fs, name)
       IN IF gi.err # "none" THEN CliEnd("uninstall", name, "error", gi.err)
          ELSE IF ~gi.found THEN CliEnd("uninstall", name, "abort", "not installed")
          ELSE /\ op' = [NoOp EXCEPT !.kind = "uninstall", !.dir = gi.inst.instance_dir,
                                     !.inst = gi.inst, !.i = 1,
                                     !.pre = fs[gi.inst.instance_dir],
                                     !.preOrigin = origin[gi.inst.instance_dir]]
               /\ pc' = "remove"
               /\ UNCHANGED ret
  /\ UNCHANGED <<fs, net, cmds, origin, interrupted, crashes, catalog, persisted, other>>

InRemove(step) ==
  /\ pc = "remove"
  /\ op.i <= Len(remove_instance_steps)
  /\ remove_instance_steps[op.i] = step

\* After a step of remove_instance: the next one, or return.
RemoveAdvance ==
  /\ op' = [op EXCEPT !.i = @ + 1]
  /\ IF op.i = Len(remove_instance_steps) THEN Finish ELSE UNCHANGED <<pc, ret>>

\* instance.stop(): docker-compose down; its exit status is not looked at.
RemoveStop ==
  /\ InRemove("stop")
  /\ \E rc \in {0, 1} : cmds' = Append(cmds, Cmd("down", rc))
  /\ RemoveAdvance
  /\ UNCHANGED <<fs, net, origin, interrupted, crashes, catalog, persisted, other>>

\* instance.destroy(): docker-compose rm -v; its exit status is not looked at.
RemoveDestroy ==
  /\ InRemove("destroy")
  /\ \E rc \in {0, 1} : cmds' = Append(cmds, Cmd("rm -v", rc))
  /\ RemoveAdvance
  /\ UNCHANGED <<fs, net, origin, interrupted, crashes, catalog, persisted, other>>

\* An rmtree that deletes the metadata file only.
rmtree_meta_only(entry) == [entry EXCEPT !.meta = Absent]

\* shutil.rmtree(instance_dir): the directory and everything in it.
rmtree(entry) == AbsentDir

RemoveRmtree ==
  /\ InRemove("rmtree")
  /\ IF fs[op.dir].kind = "absent"
       THEN /\ Raise("FileNotFoundError")
            /\ UNCHANGED <<fs, op, origin, interrupted, persisted>>
       ELSE /\ fs' = [fs EXCEPT ![op.dir] = rmtree(@)]
            /\ origin' = [origin EXCEPT ![op.dir] = 0]
            /\ interrupted' = [interrupted EXCEPT ![op.dir] = FALSE]
            /\ persisted' = [persisted EXCEPT ![op.dir] = <<>>]
            /\ RemoveAdvance
  /\ UNCHANGED <<net, cmds, crashes, catalog, other>>

(***************************************************************************)
(* Process death                                                           *)
(***************************************************************************)

\* Largest number of process deaths in one behaviour.
MaxCrashes == 1

\* The steps of create at which some of its files are written and others
\* are not yet.
MidWrite ==
  {"create_compose_write", "create_data_open", "create_data_write",
   "create_meta_open", "create_meta_write"}

\* The process is killed (or the host loses power) before its next step.
Crash ==
  /\ pc \notin {"idle", "done"}
  /\ crashes < MaxCrashes
  /\ crashes' = crashes + 1
  /\ pc' = "idle"
  /\ op' = NoOp
  /\ cmds' = <<>>
  /\ ret' = NoRet
  /\ interrupted' = IF pc \in MidWrite
                      THEN [interrupted EXCEPT ![op.dir] = TRUE] ELSE interrupted
  /\ UNCHANGED <<fs, net, origin, catalog, persisted, other>>

(***************************************************************************)
(* Two processes in AppInstance.create on one instance directory           *)
(***************************************************************************)

\* The steps of create that have a write to the instance directory ahead of
\* them.
WritesAhead ==
  {"create_instance_dir", "create_data_dir", "create_render"} \cup MidWrite

\* create takes no lock and holds no file open across its steps: the
\* scheduler may suspend the running process between any two of them and
\* resume the other. raced records that a process was suspended between its
\* first and its last write while the other still had writes to make.
Switch ==
  /\ other.pc \notin {"idle", "done"}
  /\ pc' = other.pc
  /\ op' = other.op
  /\ cmds' = other.cmds
  /\ ret' = other.ret
  /\ other' = [pc |-> pc, op |-> op, cmds |-> cmds, ret |-> ret,
               raced |-> other.raced \/ (pc \in MidWrite /\ other.pc \in WritesAhead)]
  /\ UNCHANGED <<fs, net, origin, interrupted, crashes, catalog, persisted>>

(***************************************************************************)
(* Specifications                                                          *)
(***************************************************************************)

CreateSteps ==
  \/ CreateInstanceDir
  \/ CreateDataDir
  \/ CreateRender
  \/ CreateComposeWrite
  \/ CreateDataOpen
  \/ CreateDataWrite
  \/ CreateMetaOpen
  \/ CreateMetaWrite
  \/ CreateLoad
  \/ NetInspect
  \/ NetCreate
  \/ CreatePull
  \/ CreateReturn

RemoveSteps ==
  \/ RemoveStop
  \/ RemoveDestroy
  \/ RemoveRmtree

VerbSteps ==
  \/ VerbRun
  \/ StatusInspect

Next ==
  \/ CatalogUpdate
  \/ ApiCreate
  \/ ApiInstallApp
  \/ CliInstall
  \/ CliReinstall
  \/ CliUninstall
  \/ ApiVerb
  \/ CliVerb
  \/ CreateSteps
  \/ CliStop
  \/ StartUp
  \/ VerbSteps
  \/ RemoveSteps
  \/ Return

Spec == Init /\ [][Next]_vars

\* create_instance and uninstall, with the process free to die at any step
\* (install and reinstall reach create through the same steps).
NextCrash ==
  \/ ApiCreate
  \/ CliUninstall
  \/ CreateSteps
  \/ RemoveSteps
  \/ Return
  \/ Crash

SpecCrash == Init /\ [][NextCrash]_vars

\* The catalog queries over any content of the catalog root.
InitCatalog ==
  /\ fs = [d \in Dirs |-> AbsentDir]
  /\ net = FALSE
  /\ pc = "idle"
  /\ op = NoOp
  /\ cmds = <<>>
  /\ ret = NoRet
  /\ origin = [d \in Dirs |-> 0]
  /\ interrupted = [d \in Dirs |-> FALSE]
  /\ crashes = 0
  /\ catalog \in Catalogs
  /\ persisted = [d \in Dirs |-> <<>>]
  /\ other = NoProcess

NextCatalog ==
  \/ ApiIterApps
  \/ ApiGetApp
  \/ Return

SpecCatalog == InitCatalog /\ [][NextCatalog]_vars

\* Two processes have each called create_instance of the same App, with
\* different variables, on an instances root that holds nothing yet.
InitConcurrent ==
  /\ fs = [d \in Dirs |-> AbsentDir]
  /\ net \in BOOLEAN
  /\ cmds = <<>>
  /\ ret = NoRet
  /\ origin = [d \in Dirs |-> 0]
  /\ interrupted = [d \in Dirs |-> FALSE]
  /\ crashes = 0
  /\ catalog = EmptyCatalog
  /\ persisted = [d \in Dirs |-> <<>>]
  /\ pc = "create_instance_dir"
  /\ \E a \in AppIds : \E v1 \in VarMaps : \E v2 \in VarMaps \ {v1} :
       /\ op = [NoOp EXCEPT !.kind = "create", !.app = a, !.dir = Apps[a].name,
                            !.vars = v1, !.pre = AbsentDir]
       /\ other = [pc |-> "create_instance_dir",
                   op |-> [NoOp EXCEPT !.kind = "create", !.app = a,
                                       !.dir = Apps[a].name, !.vars = v2,
                                       !.pre = AbsentDir],
                   cmds |-> <<>>, ret |-> NoRet, raced |-> FALSE]

NextConcurrent ==
  \/ Switch
  \/ CreateSteps

SpecConcurrent == InitConcurrent /\ [][NextConcurrent]_vars

(***************************************************************************)
(* Properties                                                              *)
(***************************************************************************)

\* The running operation has called create.
Creating == op.kind \in CreateKinds /\ op.app # 0

\* create has returned an instance to its caller.
Created == Creating /\ op.returned

\* create has made all its writes (and may still be loading or pulling).
PostWrite ==
  /\ Creating
  /\ \/ pc \in {"create_load", "create_pull", "create_return"}
     \/ pc \in {"net_inspect", "net_create"} /\ ~op.returned
     \/ op.returned

\* The variables an entry's metadata file holds, when it parses.
MetaValid(entry) == entry.meta.kind = "file" /\ Len(entry.meta.body) = 1

\* C1: when create(app, dir, vars) has returned, load on the instance's
\* directory gives variables equal to vars and app_name equal to app.name.
C1_RoundTrip ==
  Created =>
    LET inst == load(fs, op.inst.instance_dir)
    IN /\ inst.err = "none"
       /\ inst.variables = op.vars
       /\ inst.app_name = Apps[op.app].name

\* A create has returned whose variables hold an integer and a string.
C1_Witness ==
  /\ Created
  /\ \E k \in DOMAIN op.vars : op.vars[k].t = "int"
  /\ \E k \in DOMAIN op.vars : op.vars[k].t = "str"

\* C2 (as claimed): after a reinstall, every previously persisted variable the
\* operator did not retype is still there with its old value, and every
\* retyped one holds the typed text.
C2_ReinstallKeepsPrior ==
  (op.kind = "reinstall" /\ op.returned) =>
    LET inst == load(fs, op.dir)
    IN /\ \A k \in DOMAIN op.prior \ DOMAIN op.typed :
            k \in DOMAIN inst.variables /\ inst.variables[k] = op.prior[k]
       /\ \A k \in DOMAIN op.typed :
            k \in DOMAIN inst.variables /\ inst.variables[k].v = op.typed[k]

\* The template of the running create references a name that is neither
\* supplied nor the computed APPDATA_DIR.
Unbound ==
  /\ Creating
  /\ \E i \in 1..Len(Apps[op.app].compose_template) :
       /\ IsVar(Apps[op.app].compose_template[i])
       /\ Apps[op.app].compose_template[i].var \notin DOMAIN op.vars \cup {"APPDATA_DIR"}

\* C3: a template that references a name absent from the render context
\* makes render_template, and so create, fail: no manifest is written, no
\* instance is returned and the call ends with an error.
C3_StrictBinding ==
  Unbound =>
    /\ ~render_template(Apps[op.app].compose_template, Context(op.vars, op.dir)).ok
    /\ fs[op.dir].compose = op.pre.compose
    /\ ~op.returned
    /\ pc = "done" => ret.status = "error"

\* A create ended with the renderer's error.
C3_Witness ==
  /\ Unbound
  /\ pc = "done"
  /\ ret = [status |-> "error", err |-> "UndefinedError"]

\* The running create has the app and variables of the create that last
\* completed on the same directory.
SameAsLast ==
  /\ Creating
  /\ op.preOrigin = op.app
  /\ ~op.preInterrupted
  /\ MetaValid(op.pre)
  /\ json_loads(op.pre.meta.body[1]).variables = op.vars

\* C4: a second create with the same (app, dir, variables) leaves the
\* directory (manifest, metadata, data directory and its files) exactly as the
\* first one left it.
C4_IdempotentRecreate ==
  (PostWrite /\ SameAsLast) => fs[op.dir] = op.pre

\* A repeated create of an app with data files has returned.
C4_Witness ==
  /\ Created
  /\ SameAsLast
  /\ Len(Apps[op.app].data_files) > 0
  /\ DOMAIN op.vars # {}

\* A caller can look at the instances root: no operation is running.
Observable == pc \in {"idle", "done"}

\* The manifest of entry d is its App's template rendered under the
\* variables its metadata holds, plus the footer.
Consistent(d) ==
  /\ origin[d] # 0
  /\ LET cd == compose_data(Apps[origin[d]], load(fs, d).variables, d)
     IN cd.ok /\ fs[d].compose = [kind |-> "file", body |-> cd.text]

C6_CrashRecoverable ==
  /\ pc = "idle" =>
       \A d \in Dirs :
         MetaValid(fs[d]) =>
           /\ list_instances(fs).err = "none"
           /\ get_instance(fs, load(fs, d).app_name).found
  /\ (Created /\ op.preInterrupted) =>
       /\ fs[op.dir].compose =
            [kind |-> "file", body |-> compose_data(Apps[op.app], op.vars, op.dir).text]
       /\ fs[op.dir].meta =
            [kind |-> "file", body |-> <<json_dumps(metadata(Apps[op.app], op.vars))>>]
       /\ \A i \in 1..Len(Apps[op.app].data_files) :
            fs[op.dir].data[Apps[op.app].data_files[i][1]] =
              [kind |-> "file", body |-> <<Apps[op.app].data_files[i][2]>>]

\* C7: when remove_instance(instance) has returned, the instance's directory
\* is gone and get_instance(instance.app_name) finds nothing.
C7_Removal ==
  (op.kind = "uninstall" /\ pc = "done" /\ ret.status = "ok") =>
    /\ fs[op.inst.instance_dir].kind = "absent"
    /\ get_instance(fs, op.inst.app_name) = [err |-> "none", found |-> FALSE, inst |-> NoInst]

\* An instance has been removed while another one stays installed.
C7_Witness ==
  /\ op.kind = "uninstall"
  /\ pc = "done"
  /\ ret.status = "ok"
  /\ op.pre.kind = "dir"
  /\ Len(list_instances(fs).instances) = 1

\* C8: remove_instance issues down, then rm -v, each while the manifest is
\* still on disk, and deletes the directory only after both.
C8_TeardownBeforeDelete ==
  op.kind = "uninstall" =>
    /\ \A i \in 1..Len(cmds) : cmds[i].compose
    /\ Len(cmds) >= 1 => cmds[1].cmd = "down"
    /\ Len(cmds) >= 2 => cmds[2].cmd = "rm -v"
    /\ Len(cmds) <= 2
    /\ (op.pre.kind = "dir" /\ fs[op.dir].kind = "absent") => Len(cmds) = 2

\* A removal has issued both teardown commands and deleted the directory.
C8_Witness ==
  /\ op.kind = "uninstall"
  /\ pc = "done"
  /\ Len(cmds) = 2
  /\ op.pre.compose.kind = "file"
  /\ fs[op.dir].kind = "absent"

\* C9 (as claimed): in remove_instance a teardown command that exits non-zero
\* is the last thing the operation does: no later command is issued and the
\* directory keeps its manifest and metadata.
C9_FirstFailureAborts ==
  op.kind = "uninstall" =>
    \A i \in 1..Len(cmds) :
      cmds[i].rc # 0 => (i = Len(cmds) /\ fs[op.dir] = op.pre)

\* C10 (as claimed): a create whose image pull or network creation exited
\* non-zero does not return an instance; it ends with an error.
C10_CreateFailsOnCommandFailure ==
  (op.kind = "create" /\
   \E i \in 1..Len(cmds) : cmds[i].cmd \in {"pull", "network create"} /\ cmds[i].rc # 0) =>
    /\ ~op.returned
    /\ pc = "done" => ret.status = "error"

\* The running operation is a lifecycle verb on an instance.
OnInstance == op.kind \in {"verb", "cli_verb"} /\ op.inst # NoInst

\* AppInstance.start has returned or raised.
StartEnded == OnInstance /\ op.verb = "start" /\ pc = "done"

\* C11: start() returns True exactly when `up -d` exits with status 0 and
\* False when it exits non-zero; it never raises on a non-zero exit, whatever
\* the network inspect / create before it did.
C11_StartResult ==
  StartEnded =>
    /\ ret.status = "ok"
    /\ cmds[Len(cmds)].cmd = "up -d"
    /\ op.started = (cmds[Len(cmds)].rc = 0)

\* A start whose network creation failed has returned True, `up -d` having
\* exited 0.
C11_Witness ==
  /\ StartEnded
  /\ \E i \in 1..Len(cmds) : cmds[i].cmd = "network create" /\ cmds[i].rc # 0
  /\ cmds[Len(cmds)].rc = 0
  /\ op.started

\* The instance the last create on entry d persisted.
LastCreated(d) ==
  [err |-> "none", app_name |-> Apps[origin[d]].name, instance_dir |-> d,
   variables |-> persisted[d]]

\* C12: whenever a caller can look, whatever the catalog holds by then, load
\* and get_instance return every created instance with the app_name and the
\* variables its last create persisted.
C12_MetadataIsTruth ==
  Observable =>
    \A d \in Dirs :
      origin[d] # 0 =>
        /\ load(fs, d) = LastCreated(d)
        /\ get_instance(fs, Apps[origin[d]].name) =
             [err |-> "none", found |-> TRUE, inst |-> LastCreated(d)]

\* A lifecycle verb has run to its end on an instance whose App the catalog
\* no longer holds, while the catalog still holds another app.
C12_Witness ==
  /\ OnInstance
  /\ pc = "done"
  /\ ret.status = "ok"
  /\ Len(cmds) > 0
  /\ DOMAIN op.inst.variables # {}
  /\ get_app(catalog, op.inst.app_name) = [err |-> "none", app |-> 0]
  /\ iter_apps(catalog).apps # <<>>

UserFacing(r) ==
  \/ r.status = "abort"
  \/ r.status = "error" /\ r.err \in BerryErrors

\* C14 (as claimed): bp start / stop / restart for a name without an
\* instance ends with a user-facing error and issues no runtime command.
C14_MissingInstanceIsUserError ==
  (op.kind = "cli_verb" /\ op.inst = NoInst /\ pc = "done") =>
    /\ UserFacing(ret)
    /\ cmds = <<>>

\* The non-hidden entries of the instances root that hold a metadata file.
WithMetadata ==
  {d \in Dirs : fs[d].kind # "absent" /\ ~IsHidden(d) /\ fs[d].meta.kind = "file"}

\* C15 (as claimed): whatever the instances root holds when a caller looks,
\* list_instances does not raise and returns one loaded instance for each
\* non-hidden entry that holds a metadata file.
C15_ListingTolerance ==
  Observable =>
    LET l == list_instances(fs)
    IN /\ l.err = "none"
       /\ {l.instances[i].instance_dir : i \in 1..Len(l.instances)} = WithMetadata
       /\ Len(l.instances) = Cardinality(WithMetadata)

\* The catalog entries that are non-hidden directories holding a manifest.
ValidDirs ==
  {n \in CatalogNames :
     catalog[n].kind = "dir" /\ ~StartsWithDot(n) /\ catalog[n].manifest # 0}

\* Every one of them has its template file, so that App.load succeeds on it.
AllLoad == \A n \in ValidDirs : catalog[n].template

\* The catalog with every other entry taken out.
OnlyValid == [n \in CatalogNames |-> IF n \in ValidDirs THEN catalog[n] ELSE NoEntry]

\* C16: iter_apps yields the Apps of the non-hidden directories that hold a
\* manifest, in listing order, and nothing else; hidden entries, plain files
\* and directories without a manifest change neither what it yields nor
\* whether it fails (it fails only when App.load fails on one of the
\* directories that do hold a manifest).
C16_ResolverDiscovery ==
  (op.kind = "iter_apps" /\ pc = "done") =>
    LET listed == SelectSeq(CatalogOrder, LAMBDA n : n \in ValidDirs)
    IN /\ op.result = iter_apps(OnlyValid)
       /\ AllLoad <=> ret.status = "ok"
       /\ AllLoad =>
            op.result.apps = [i \in 1..Len(listed) |-> catalog[listed[i]].manifest]

\* An enumeration has yielded one App from a catalog root that also holds a
\* hidden directory with a manifest, a plain file and a directory without
\* a manifest.
C16_Witness ==
  /\ op.kind = "iter_apps"
  /\ pc = "done"
  /\ ret.status = "ok"
  /\ Len(op.result.apps) = 1
  /\ catalog[".git"] = AppDir(1, TRUE)
  /\ catalog["README"] = PlainFile
  /\ catalog["redis"] = AppDir(0, TRUE)
  /\ catalog["web"] = AppDir(2, TRUE)

\* C17: over a catalog whose apps all load, get_app(name) returns an
\* enumerated App named exactly name when there is one and None otherwise,
\* without raising.
C17_GetAppExact ==
  (op.kind = "get_app" /\ pc = "done" /\ AllLoad) =>
    LET enumerated == {catalog[n].manifest : n \in ValidDirs}
    IN /\ ret.status = "ok"
       /\ op.result.err = "none"
       /\ op.result.app # 0 <=> \E a \in enumerated : Apps[a].name = op.query
       /\ op.result.app # 0 =>
            op.result.app \in enumerated /\ Apps[op.result.app].name = op.query

\* get_app has returned None for a name that is a proper part of the name
\* of an app the catalog enumerates.
C17_Witness ==
  /\ op.kind = "get_app"
  /\ pc = "done"
  /\ ret.status = "ok"
  /\ op.query = "we"
  /\ op.result.app = 0
  /\ \E n \in ValidDirs : catalog[n].template /\ Apps[catalog[n].manifest].name = "web"

\* C18: while a lifecycle verb runs and after it, the instances root is as
\* it was when the verb began, the instance's manifest, metadata and data
\* files are the ones its last create wrote, and get_instance still returns
\* the instance.
C18_VerbsPreserveState ==
  OnInstance =>
    /\ fs = op.root
    /\ get_instance(fs, op.inst.app_name) =
         [err |-> "none", found |-> TRUE, inst |-> op.inst]
    /\ origin[op.dir] # 0
    /\ LET app == Apps[origin[op.dir]]
           variables == persisted[op.dir]
       IN /\ fs[op.dir].compose =
               [kind |-> "file", body |-> compose_data(app, variables, op.dir).text]
          /\ fs[op.dir].meta =
               [kind |-> "file", body |-> <<json_dumps(metadata(app, variables))>>]
          /\ \A i \in 1..Len(app.data_files) :
               fs[op.dir].data[app.data_files[i][1]] =
                 [kind |-> "file", body |-> <<app.data_files[i][2]>>]

\* destroy has run to its end on an instance that has data files.
C18_Witness ==
  /\ OnInstance
  /\ op.verb = "destroy"
  /\ pc = "done"
  /\ Len(cmds) = 1
  /\ fs[op.dir].data["conf"].kind = "file"

\* The path lies below the directory.
Inside(path, dir) == Len(path) > Len(dir) /\ SubSeq(path, 1, Len(dir)) = dir

\* C19 (as claimed): when create has returned, every data file of the app
\* holds its content, and the file written for it lies inside the
\* instance's appdata directory.
C19_DataFilesInstalled ==
  Created =>
    \A i \in 1..Len(Apps[op.app].data_files) :
      LET p == Apps[op.app].data_files[i][1]
      IN /\ fs[op.dir].data[p] =
              [kind |-> "file", body |-> <<Apps[op.app].data_files[i][2]>>]
         /\ Inside(Resolve(<<>>, dest_filename(op.dir, p)), data_dir(op.dir))

\* C20 (as claimed): when the supplied variables bind APPDATA_DIR, the
\* manifest create writes is the template rendered with the supplied value,
\* the one the metadata records.
C20_SuppliedOverComputed ==
  (Created /\ "APPDATA_DIR" \in DOMAIN op.vars) =>
    /\ load(fs, op.dir).variables["APPDATA_DIR"] = op.vars["APPDATA_DIR"]
    /\ fs[op.dir].compose.body =
         render_template(Apps[op.app].compose_template,
                         Overlay([k \in {"APPDATA_DIR"} |-> DataDirOf(op.dir)], op.vars)).text
           \o COMPOSE_FOOTER

\* The instances root as it was when the running operation began.
RootBefore == [fs EXCEPT ![op.dir] = op.pre]

\* create has ended because the template references an unbound variable.
RenderFailed == Creating /\ pc = "done" /\ ret.err = "UndefinedError"

\* C21: when create fails on an unbound template variable, the manifest, the
\* metadata and the data files of the directory are as they were, and
\* list_instances / get_instance return what they returned before the call:
\* nothing for an instance that was absent, the previous instance otherwise.
C21_FailedCreateUnchanged ==
  RenderFailed =>
    /\ fs[op.dir].compose = op.pre.compose
    /\ fs[op.dir].meta = op.pre.meta
    /\ fs[op.dir].data = op.pre.data
    /\ list_instances(fs) = list_instances(RootBefore)
    /\ \A name \in AppNames : get_instance(fs, name) = get_instance(RootBefore, name)
    /\ op.pre.meta.kind = "absent" => ~get_instance(fs, Apps[op.app].name).found

\* A create has failed on an unbound variable in a directory that did not
\* exist before, next to an installed instance.
C21_Witness ==
  /\ RenderFailed
  /\ op.pre.kind = "absent"
  /\ fs[op.dir].kind = "dir"
  /\ Len(list_instances(fs).instances) = 1

\* C22 (as claimed): in a start(), `up -d` is issued after the network
\* inspect (and after the create that follows a failed inspect), only when
\* the shared network exists; no create is issued when the inspect succeeds.
C22_NetworkBeforeUp ==
  (OnInstance /\ op.verb = "start") =>
    \A i \in 1..Len(cmds) :
      /\ cmds[i].cmd = "up -d" =>
           /\ i > 1
           /\ cmds[1].cmd = "network inspect"
           /\ cmds[1].rc # 0 => (i > 2 /\ cmds[2].cmd = "network create")
           /\ cmds[i].net
      /\ cmds[i].cmd = "network create" =>
           (i = 2 /\ cmds[1].cmd = "network inspect" /\ cmds[1].rc # 0)

\* The entries whose metadata names the app.
DirsOf(name) == {d \in Dirs : MetaValid(fs[d]) /\ load(fs, d).app_name = name}

\* Whenever a caller can look, each app has at most one instance directory,
\* the one named by the app, and get_instance returns the variables of the
\* most recent install that succeeded.
OneDirPerApp ==
  Observable =>
    /\ \A name \in AppNames : DirsOf(name) \subseteq {name}
    /\ \A d \in Dirs :
         origin[d] # 0 =>
           LET gi == get_instance(fs, Apps[origin[d]].name)
           IN gi.found /\ gi.inst.instance_dir = d /\ gi.inst.variables = persisted[d]

BothDone == pc = "done" /\ other.pc = "done"

\* C23: two creates on one instance directory end with a manifest and a
\* metadata file that disagree only by interleaving: unless one process was
\* suspended between its first and its last write while the other still had
\* writes to make, the manifest left behind is the rendering of the
\* variables the metadata records.
C23_DisagreementNeedsInterleaving ==
  (BothDone /\ ~other.raced /\ origin[op.dir] # 0) => Consistent(op.dir)

\* Both creates have returned an instance; the manifest is the rendering of
\* one call's variables, the metadata records the other call's variables,
\* and the two renderings differ.
C23_Witness ==
  /\ BothDone
  /\ ret.status = "ok"
  /\ other.ret.status = "ok"
  /\ op.vars # other.op.vars
  /\ fs[op.dir].compose =
       [kind |-> "file", body |-> compose_data(Apps[op.app], op.vars, op.dir).text]
  /\ load(fs, op.dir).err = "none"
  /\ load(fs, op.dir).variables = other.op.vars
  /\ compose_data(Apps[op.app], op.vars, op.dir).text
       # compose_data(Apps[op.app], other.op.vars, op.dir).text

====
